---- MODULE Spec2Model ----
(***************************************************************************)
(* Model of server/server.py: the video job orchestrator (process_video),  *)
(* the admission and status endpoints, the processing_status registry, the *)
(* temp_videos working storage and the cleanup_old_videos janitor.         *)
(*                                                                         *)
(* The server is a single asyncio event loop: the code between two awaits  *)
(* runs without interleaving.  A job's pc names the statement at which its *)
(* coroutine stands; the pcs in AwaitPCs are the suspension points         *)
(* (await process.communicate(), await asyncio.to_thread(...)), and no     *)
(* other task runs while some job stands at a pc outside AwaitPCs.         *)
(* Subprocesses (ffprobe, ffmpeg) are separate processes: their exit is an *)
(* action of its own, distinct from the resumption of the coroutine.       *)
(***************************************************************************)
EXTENDS Integers, Sequences, FiniteSets, TLC

(* ---------------------------------------------------------------- bounds *)
NumJobs == 2
MaxFrames == 2

(* ----------------------------------------------------- program constants *)
MaxFrameCount == 250
MaxAge == 1

Jobs == 1..NumJobs

\* method strings: the one that uses the accelerator, one rembg session,
\* and one outside the supported set
Methods == {"inspyrenet", "u2net", "bogus"}

SupportedMethods ==
    {"bria", "inspyrenet", "u2net", "u2net_human_seg", "isnet-general-use", "isnet-anime"}

\* what ffprobe can print on stdout: a packet count in decimal, or nothing
\* (a file without a video stream)
ProbeOutputs == {"250", "251", ""}

\* line 160: int(stdout.decode().strip())
Parsable(s) == s \in {"0", "1", "2", "3", "250", "251"}
ParseInt(s) ==
    CASE s = "0" -> 0
      [] s = "1" -> 1
      [] s = "2" -> 2
      [] s = "3" -> 3
      [] s = "250" -> 250
      [] s = "251" -> 251

\* age of a top-level artifact (now minus its mtime) in units of 10 minutes;
\* Absent when the artifact does not exist
Absent == 0 - 1
Older(a) == IF a = Absent THEN a ELSE a + 1

NoDir == [exists |-> FALSE, files |-> <<>>]
NoFile == [age |-> Absent, frames |-> <<>>]

\* line 211: output_<video_id>.webm under temp_videos
OutputPath(j) == <<"output", j>>

NoResponse == [op |-> "none", id |-> 0, code |-> 0, body |-> [detail |-> ""]]

VARIABLES
    pc,                 \* per job: where its request / coroutine stands
    method,             \* per job: the method form field
    processing_status,  \* the registry: video_id -> record
    device,             \* where inspyrenet_model.model lives: "cpu" or "cuda"
    frames_dir,         \* per job: whether local frames_dir is bound
    frame_count,        \* per job: local frame_count (-1 while unset)
    total_frames,       \* per job: local total_frames
    idx,                \* per job: loop index i of the frame loop
    returncode,         \* per job: exit status of the awaited subprocess
    stdout,             \* per job: stdout of the probe
    raised,             \* per job: description of the last exception raised
    extracted,          \* per job: how many frame files the extractor wrote (-1 while unset)
    inputFile,          \* per job: age of temp_videos/input_<id>.mp4
    outputFile,         \* per job: temp_videos/output_<id>.webm
    framesRoot,         \* age of temp_videos/frames
    jobDir,             \* per job: temp_videos/frames/<id> and its frame files
    response            \* what the handler that just ran returned

vars == <<pc, method, processing_status, device, frames_dir, frame_count,
          total_frames, idx, returncode, stdout, raised, extracted, inputFile,
          outputFile, framesRoot, jobDir, response>>

jobLocals == <<frames_dir, frame_count, total_frames, idx, returncode, stdout, raised,
               extracted>>
storage == <<inputFile, outputFile, framesRoot, jobDir>>
frameLocals == <<frames_dir, frame_count, total_frames, idx, returncode, stdout, extracted>>

(* ------------------------------------------------------------ scheduling *)
AwaitPCs ==
    {"idle", "rejected", "scheduled", "probe_run", "probe_exited", "extract_run",
     "extract_exited", "frame_wait", "encode_run", "encode_exited", "done", "crashed"}

\* job j's coroutine may run: no other coroutine is between two awaits
CanRun(j) == \A k \in Jobs \ {j} : pc[k] \in AwaitPCs

\* a request handler or the janitor may run
LoopFree == \A k \in Jobs : pc[k] \in AwaitPCs

(* -------------------------------------------------------------- registry *)
\* mutant: the registry keeps one status for all jobs instead of one per id
SetStatusMutant(j, rec) == [k \in (DOMAIN processing_status) \cup {j} |-> rec]

\* processing_status[video_id] = {...}
SetStatus(j, rec) ==
    [k \in (DOMAIN processing_status) \cup {j} |->
        IF k = j THEN rec ELSE processing_status[k]]

Processing(p, m) == [status |-> "processing", progress |-> p, message |-> m]
ErrorRecord(m) == [status |-> "error", message |-> m]

\* progress values are exact rationals <<numerator, denominator>>
Rat(n) == <<n, 1>>
RatLeq(a, b) == a[1] * b[2] <= b[1] * a[2]
RatEq(a, b) == a[1] * b[2] = b[1] * a[2]

\* mutant: the loop index used where the number of frames done is meant
FrameProgressMutant(i, total) == <<i * 100, total>>

\* line 204: progress = (i + 1) / total_frames * 100
FrameProgress(i, total) == <<(i + 1) * 100, total>>

Init ==
    /\ pc = [j \in Jobs |-> "idle"]
    /\ method = [j \in Jobs |-> "none"]
    /\ processing_status = <<>>
    /\ device = "cpu"
    /\ frames_dir = [j \in Jobs |-> FALSE]
    /\ frame_count = [j \in Jobs |-> 0 - 1]
    /\ total_frames = [j \in Jobs |-> 0]
    /\ idx = [j \in Jobs |-> 0]
    /\ returncode = [j \in Jobs |-> "none"]
    /\ stdout = [j \in Jobs |-> "none"]
    /\ raised = [j \in Jobs |-> "none"]
    /\ extracted = [j \in Jobs |-> 0 - 1]
    /\ inputFile = [j \in Jobs |-> Absent]
    /\ outputFile = [j \in Jobs |-> NoFile]
    /\ framesRoot = 0
    /\ jobDir = [j \in Jobs |-> NoDir]
    /\ response = NoResponse

(* ------------------------------------------------- outcomes of a section *)
\* mutant: the handler logs the exception and leaves the record as it was
RaiseMutant(j, msg) ==
    /\ raised' = [raised EXCEPT ![j] = msg]
    /\ device' = IF method[j] = "inspyrenet" THEN "cpu" ELSE device
    /\ pc' = [pc EXCEPT ![j] = "finally"]
    /\ UNCHANGED processing_status

\* except Exception as e (lines 237-243): the record becomes status=error
\* with str(e), the accelerator is released, and control reaches finally
Raise(j, msg) ==
    /\ processing_status' = SetStatus(j, ErrorRecord(msg))
    /\ raised' = [raised EXCEPT ![j] = msg]
    /\ device' = IF method[j] = "inspyrenet" THEN "cpu" ELSE device
    /\ pc' = [pc EXCEPT ![j] = "finally"]

\* mutant: after the error record the pipeline is started over
FailMutant(j, msg) ==
    /\ processing_status' = SetStatus(j, ErrorRecord(msg))
    /\ pc' = [pc EXCEPT ![j] = "scheduled"]
    /\ UNCHANGED <<raised, device>>

\* an error record followed by return: control reaches finally
Fail(j, msg) ==
    /\ processing_status' = SetStatus(j, ErrorRecord(msg))
    /\ pc' = [pc EXCEPT ![j] = "finally"]
    /\ UNCHANGED <<raised, device>>

\* a registry write followed by the next statement
Write(j, rec, next) ==
    /\ processing_status' = SetStatus(j, rec)
    /\ pc' = [pc EXCEPT ![j] = next]
    /\ UNCHANGED <<raised, device>>

(* ------------------------------------------------------------- admission *)
\* remove_background_video (lines 257-285): a fresh uuid4, the upload is
\* written to input_<id>.mp4, process_video is added as a background task and
\* the id is returned.  A failure before add_task answers 500 and schedules
\* nothing; the file may have been created by open() already.
Admit(j, m) ==
    /\ LoopFree
    /\ pc[j] = "idle"
    /\ \A k \in Jobs : k < j => pc[k] # "idle"
    /\ pc' = [pc EXCEPT ![j] = "scheduled"]
    /\ method' = [method EXCEPT ![j] = m]
    /\ inputFile' = [inputFile EXCEPT ![j] = 0]
    /\ response' = [op |-> "admit", id |-> j, code |-> 200, body |-> [video_id |-> j]]
    /\ UNCHANGED <<processing_status, device, jobLocals, outputFile, framesRoot,
                   jobDir>>

AdmitFails(j, m, created) ==
    /\ LoopFree
    /\ pc[j] = "idle"
    /\ \A k \in Jobs : k < j => pc[k] # "idle"
    /\ pc' = [pc EXCEPT ![j] = "rejected"]
    /\ method' = [method EXCEPT ![j] = m]
    /\ inputFile' = [inputFile EXCEPT ![j] = IF created THEN 0 ELSE Absent]
    /\ response' = [op |-> "admit", id |-> j, code |-> 500,
                    body |-> [detail |-> "Error in video processing"]]
    /\ UNCHANGED <<processing_status, device, jobLocals, outputFile, framesRoot,
                   jobDir>>

(* ---------------------------------------------------------- process_video *)
\* mutant: the gate lets one frame more through
TooLongMutant(n) == n > MaxFrameCount + 1

\* line 163: if frame_count > 250
TooLong(n) == n > MaxFrameCount

\* mutant: the files are removed and the os.rmdir is left out
RemoveFramesDirMutant(d) == [exists |-> TRUE, files |-> <<>>]

\* lines 247-249: every file of the directory is removed, then the directory
RemoveFramesDir(d) == [exists |-> FALSE, files |-> <<>>]

\* lines 135-153: acquire the accelerator, write Initializing, start the probe
Start(j, cuda_ok) ==
    /\ CanRun(j)
    /\ pc[j] = "scheduled"
    /\ IF method[j] = "inspyrenet" /\ ~cuda_ok
         THEN Raise(j, "CUDA error")
         ELSE /\ processing_status' = SetStatus(j, Processing(Rat(0), "Initializing"))
              /\ device' = IF method[j] = "inspyrenet" THEN "cuda" ELSE device
              /\ pc' = [pc EXCEPT ![j] = "probe_run"]
              /\ UNCHANGED raised
    /\ response' = NoResponse
    /\ UNCHANGED <<method, frames_dir, frame_count, total_frames, idx, returncode,
                   stdout, extracted, storage>>

\* the ffprobe child exits
ProbeExit(j, rc, out) ==
    /\ LoopFree
    /\ pc[j] = "probe_run"
    /\ rc = "nonzero" => out = ""
    /\ pc' = [pc EXCEPT ![j] = "probe_exited"]
    /\ returncode' = [returncode EXCEPT ![j] = rc]
    /\ stdout' = [stdout EXCEPT ![j] = out]
    /\ response' = NoResponse
    /\ UNCHANGED <<method, processing_status, device, frames_dir, frame_count,
                   total_frames, idx, raised, extracted, storage>>

\* lines 153-182: returncode check, int(), the frame-count gate, makedirs,
\* write Extracting, start the extraction
ProbeReturn(j) ==
    /\ CanRun(j)
    /\ pc[j] = "probe_exited"
    /\ response' = NoResponse
    /\ IF returncode[j] # "zero"
         THEN /\ Fail(j, "Error counting frames")
              /\ UNCHANGED <<frame_count, frames_dir, framesRoot, jobDir>>
       ELSE IF ~Parsable(stdout[j])
         THEN /\ Raise(j, "invalid literal for int() with base 10")
              /\ UNCHANGED <<frame_count, frames_dir, framesRoot, jobDir>>
       ELSE IF TooLong(ParseInt(stdout[j]))
         THEN /\ Fail(j, "Video too long (max 250 frames)")
              /\ frame_count' = [frame_count EXCEPT ![j] = ParseInt(stdout[j])]
              /\ UNCHANGED <<frames_dir, framesRoot, jobDir>>
       ELSE /\ frame_count' = [frame_count EXCEPT ![j] = ParseInt(stdout[j])]
            /\ frames_dir' = [frames_dir EXCEPT ![j] = TRUE]
            /\ jobDir' = [jobDir EXCEPT ![j] = [exists |-> TRUE, files |-> <<>>]]
            /\ framesRoot' = 0
            /\ Write(j, Processing(Rat(0), "Extracting frames"), "extract_run")
    /\ returncode' = [returncode EXCEPT ![j] = "none"]
    /\ stdout' = [stdout EXCEPT ![j] = "none"]
    /\ UNCHANGED <<method, total_frames, idx, extracted, inputFile, outputFile>>

\* the extracting ffmpeg child exits, having written n frame files into the
\* job's directory if that directory still exists
ExtractExit(j, rc, n) ==
    /\ LoopFree
    /\ pc[j] = "extract_run"
    /\ ~jobDir[j].exists => (rc = "nonzero" /\ n = 0)
    /\ pc' = [pc EXCEPT ![j] = "extract_exited"]
    /\ returncode' = [returncode EXCEPT ![j] = rc]
    /\ jobDir' = [jobDir EXCEPT ![j] =
                     IF jobDir[j].exists
                       THEN [exists |-> TRUE, files |-> [k \in 1..n |-> "raw"]]
                       ELSE NoDir]
    /\ extracted' = [extracted EXCEPT ![j] = n]
    /\ response' = NoResponse
    /\ UNCHANGED <<method, processing_status, device, frames_dir, frame_count,
                   total_frames, idx, stdout, raised, inputFile, outputFile,
                   framesRoot>>

\* lines 182-190: returncode check, write Removing background
ExtractReturn(j) ==
    /\ CanRun(j)
    /\ pc[j] = "extract_exited"
    /\ IF returncode[j] # "zero"
         THEN Fail(j, "Error extracting frames")
         ELSE Write(j, Processing(Rat(0), "Removing background"), "list_frames")
    /\ returncode' = [returncode EXCEPT ![j] = "none"]
    /\ response' = NoResponse
    /\ UNCHANGED <<method, frames_dir, frame_count, total_frames, idx, stdout, extracted,
                   storage>>

\* line 205: the record written after each frame
ProgressRecord(p) == [status |-> "processing", progress |-> p]

\* mutant: the record names the uploaded input instead of the encoded output
CompletedRecordMutant(j) == [status |-> "completed", output_path |-> <<"input", j>>]

\* line 235: the record written after a successful encode
CompletedRecord(j) == [status |-> "completed", output_path |-> OutputPath(j)]

\* mutant: the listing is walked without sorted(), here in reverse order
FrameAtMutant(i, total) == total - i

\* lines 191 and 200: sorted(...) and enumerate: the file taken at index i
FrameAt(i, total) == i + 1

\* mutant: the loop stops one frame early
MoreFramesMutant(i, total) == i + 2 < total

\* line 200: the for loop has another frame after index i
MoreFrames(i, total) == i + 1 < total

\* lines 191-202: list the frame files, the zero-frames check, and the first
\* iteration of the loop up to its await; process_frame raises for a method
\* outside the supported set before it awaits anything
ListFrames(j) ==
    /\ CanRun(j)
    /\ pc[j] = "list_frames"
    /\ response' = NoResponse
    /\ IF ~jobDir[j].exists
         THEN /\ Raise(j, "No such file or directory")
              /\ UNCHANGED <<total_frames, idx>>
       ELSE IF Len(jobDir[j].files) = 0
         THEN /\ Fail(j, "No frames were extracted from the video")
              /\ total_frames' = [total_frames EXCEPT ![j] = 0]
              /\ UNCHANGED idx
       ELSE /\ total_frames' = [total_frames EXCEPT ![j] = Len(jobDir[j].files)]
            /\ idx' = [idx EXCEPT ![j] = 0]
            /\ IF method[j] \in SupportedMethods
                 THEN /\ pc' = [pc EXCEPT ![j] = "frame_wait"]
                      /\ UNCHANGED <<processing_status, raised, device>>
                 ELSE Raise(j, "Invalid method")
    /\ UNCHANGED <<method, frames_dir, frame_count, returncode, stdout, extracted, storage>>

\* lines 202-205: the backend call made through asyncio.to_thread returns (or
\* raises), the frame file is overwritten in place, the progress is written
FrameReturn(j, backend_ok) ==
    /\ CanRun(j)
    /\ pc[j] = "frame_wait"
    /\ response' = NoResponse
    /\ IF ~backend_ok
         THEN /\ Raise(j, "backend error")
              /\ UNCHANGED jobDir
       ELSE IF ~jobDir[j].exists
         THEN /\ Raise(j, "No such file or directory")
              /\ UNCHANGED jobDir
       ELSE /\ jobDir' = [jobDir EXCEPT ![j].files[FrameAt(idx[j], total_frames[j])] = "rgba"]
            /\ Write(j, ProgressRecord(FrameProgress(idx[j], total_frames[j])), "next_frame")
    /\ UNCHANGED <<method, frameLocals, inputFile, outputFile, framesRoot>>

\* lines 200-202 and 210-227: the next iteration up to its await, or, after
\* the last frame, write Encoding video and start the encoder
NextFrame(j) ==
    /\ CanRun(j)
    /\ pc[j] = "next_frame"
    /\ response' = NoResponse
    /\ IF MoreFrames(idx[j], total_frames[j])
         THEN /\ idx' = [idx EXCEPT ![j] = idx[j] + 1]
              /\ pc' = [pc EXCEPT ![j] = "frame_wait"]
              /\ UNCHANGED <<processing_status, raised, device>>
         ELSE /\ Write(j, Processing(Rat(100), "Encoding video"), "encode_run")
              /\ UNCHANGED idx
    /\ UNCHANGED <<method, frames_dir, frame_count, total_frames, returncode, stdout,
                   extracted, storage>>

\* the encoding ffmpeg child exits: with status zero it has written the output
\* from the frame files it found; a failing run may leave a partial output
EncodeExit(j, rc, partial) ==
    /\ LoopFree
    /\ pc[j] = "encode_run"
    /\ ~jobDir[j].exists => (rc = "nonzero" /\ ~partial)
    /\ rc = "zero" => ~partial
    /\ pc' = [pc EXCEPT ![j] = "encode_exited"]
    /\ returncode' = [returncode EXCEPT ![j] = rc]
    /\ outputFile' = [outputFile EXCEPT ![j] =
                         IF rc = "zero" THEN [age |-> 0, frames |-> jobDir[j].files]
                         ELSE IF partial THEN [age |-> 0, frames |-> <<>>]
                         ELSE outputFile[j]]
    /\ response' = NoResponse
    /\ UNCHANGED <<method, processing_status, device, frames_dir, frame_count,
                   total_frames, idx, stdout, raised, extracted, inputFile, framesRoot,
                   jobDir>>

\* lines 227-235: returncode check, write completed
EncodeReturn(j) ==
    /\ CanRun(j)
    /\ pc[j] = "encode_exited"
    /\ IF returncode[j] # "zero"
         THEN Fail(j, "Error creating output video")
         ELSE Write(j, CompletedRecord(j), "finally")
    /\ returncode' = [returncode EXCEPT ![j] = "none"]
    /\ response' = NoResponse
    /\ UNCHANGED <<method, frames_dir, frame_count, total_frames, idx, stdout, extracted,
                   storage>>

\* lines 245-254: the finally block.  Reading the unbound local frames_dir
\* raises UnboundLocalError, os.listdir of a missing directory raises
\* FileNotFoundError; either propagates out of process_video, skipping the
\* rest of the block.  Otherwise the files and the directory are removed and
\* the accelerator is released.  The coroutine's argument method and its loop
\* variables end with it (and the extractor's count with them); frame_count and
\* frames_dir are kept as the record of what the run saw.
Finally(j) ==
    /\ CanRun(j)
    /\ pc[j] = "finally"
    /\ response' = NoResponse
    /\ IF ~frames_dir[j]
         THEN /\ pc' = [pc EXCEPT ![j] = "crashed"]
              /\ raised' = [raised EXCEPT ![j] = "local variable 'frames_dir' referenced before assignment"]
              /\ UNCHANGED <<jobDir, framesRoot, device>>
       ELSE IF ~jobDir[j].exists
         THEN /\ pc' = [pc EXCEPT ![j] = "crashed"]
              /\ raised' = [raised EXCEPT ![j] = "No such file or directory"]
              /\ UNCHANGED <<jobDir, framesRoot, device>>
       ELSE /\ pc' = [pc EXCEPT ![j] = "done"]
            /\ jobDir' = [jobDir EXCEPT ![j] = RemoveFramesDir(@)]
            /\ framesRoot' = 0
            /\ device' = IF method[j] = "inspyrenet" THEN "cpu" ELSE device
            /\ UNCHANGED raised
    /\ method' = [method EXCEPT ![j] = "none"]
    /\ total_frames' = [total_frames EXCEPT ![j] = 0]
    /\ idx' = [idx EXCEPT ![j] = 0]
    /\ extracted' = [extracted EXCEPT ![j] = 0 - 1]
    /\ UNCHANGED <<processing_status, frames_dir, frame_count, returncode, stdout,
                   inputFile, outputFile>>

(* ----------------------------------------------------------------- status *)
FileExists(path) == outputFile[path[2]].age # Absent

\* mutant: the artifact is served without the os.path.exists check
StatusResponseMutant(j) ==
    IF j \notin DOMAIN processing_status
      THEN [op |-> "status", id |-> j, code |-> 404,
            body |-> [detail |-> "Video ID not found"]]
    ELSE IF processing_status[j].status = "completed"
      THEN [op |-> "status", id |-> j, code |-> 200,
            body |-> [file |-> processing_status[j].output_path]]
    ELSE [op |-> "status", id |-> j, code |-> 200, body |-> processing_status[j]]

\* get_status (lines 288-301)
StatusResponse(j) ==
    IF j \notin DOMAIN processing_status
      THEN [op |-> "status", id |-> j, code |-> 404,
            body |-> [detail |-> "Video ID not found"]]
    ELSE IF processing_status[j].status = "completed"
      THEN IF ~FileExists(processing_status[j].output_path)
             THEN [op |-> "status", id |-> j, code |-> 404,
                   body |-> [detail |-> "Processed video file not found"]]
             ELSE [op |-> "status", id |-> j, code |-> 200,
                   body |-> [file |-> processing_status[j].output_path]]
    ELSE [op |-> "status", id |-> j, code |-> 200, body |-> processing_status[j]]

GetStatus(j) ==
    /\ LoopFree
    /\ response' = StatusResponse(j)
    /\ UNCHANGED <<pc, method, processing_status, device, jobLocals, storage>>

(* ------------------------------------------------------------ one image *)
ImageOutcomes == {"ok", "cuda_fails", "process_fails"}

\* remove_background (lines 88-118), the single-image endpoint: after the
\* await of line 91 it runs to its response without another await.  With
\* inspyrenet it moves the model to the accelerator, transforms the image and
\* moves the model back (lines 98-100), asking no one whether a video job is
\* using it; an exception between the two leaves the model where it was put.
\* Every exception, the HTTPException(400) of line 105 included, is caught at
\* line 116 and answered 500.
RemoveBackground(m, outcome) ==
    /\ LoopFree
    /\ device' = IF m # "inspyrenet" \/ outcome = "cuda_fails" THEN device
                 ELSE IF outcome = "process_fails" THEN "cuda"
                 ELSE "cpu"
    /\ response' = IF m \in SupportedMethods /\ outcome = "ok"
                     THEN [op |-> "image", id |-> 0, code |-> 200,
                           body |-> [detail |-> "image/png"]]
                     ELSE [op |-> "image", id |-> 0, code |-> 500,
                           body |-> [detail |-> "error"]]
    /\ UNCHANGED <<pc, method, processing_status, jobLocals, storage>>

(* ---------------------------------------------------------------- janitor *)
\* line 53: current_time - item_modified > timedelta(minutes=10)
Expired(age) == age # Absent /\ age > MaxAge

\* mutant: the threshold compared with >= instead of >
SweepAgeMutant(age) == IF age # Absent /\ age >= MaxAge THEN Absent ELSE age

\* lines 50-59 for one top-level item of the given age: removed if expired
SweepAge(age) == IF Expired(age) THEN Absent ELSE age

\* cleanup_old_videos (lines 47-60): the 600 s sleep of line 60 elapses and
\* one pass of lines 49-59 runs over the top-level items of temp_videos (the
\* input files, the output files and the frames directory).  Time is counted
\* in these sleeps: every artifact is ten minutes older at each pass.
JanitorWake ==
    /\ LoopFree
    /\ inputFile' = [j \in Jobs |-> SweepAge(Older(inputFile[j]))]
    /\ outputFile' = [j \in Jobs |->
                         IF SweepAge(Older(outputFile[j].age)) = Absent THEN NoFile
                         ELSE [outputFile[j] EXCEPT !.age = Older(@)]]
    /\ framesRoot' = SweepAge(Older(framesRoot))
    /\ jobDir' = IF SweepAge(Older(framesRoot)) = Absent
                   THEN [j \in Jobs |-> NoDir] ELSE jobDir
    /\ response' = NoResponse
    /\ UNCHANGED <<pc, method, processing_status, device, jobLocals>>

\* lines 49-59 alone: one pass over the top-level items, at the present time
Sweep ==
    /\ LoopFree
    /\ inputFile' = [j \in Jobs |-> SweepAge(inputFile[j])]
    /\ outputFile' = [j \in Jobs |->
                         IF SweepAge(outputFile[j].age) = Absent THEN NoFile
                         ELSE outputFile[j]]
    /\ framesRoot' = SweepAge(framesRoot)
    /\ jobDir' = IF SweepAge(framesRoot) = Absent THEN [j \in Jobs |-> NoDir] ELSE jobDir
    /\ response' = NoResponse
    /\ UNCHANGED <<pc, method, processing_status, device, jobLocals>>

\* line 60 alone: the janitor sleeps 600 s after a pass, so nothing that a
\* pass removes is still there; every artifact is ten minutes older
Sleep ==
    /\ LoopFree
    /\ \A j \in Jobs : ~Expired(inputFile[j]) /\ ~Expired(outputFile[j].age)
    /\ ~Expired(framesRoot)
    /\ inputFile' = [j \in Jobs |-> Older(inputFile[j])]
    /\ outputFile' = [j \in Jobs |-> [outputFile[j] EXCEPT !.age = Older(@)]]
    /\ framesRoot' = Older(framesRoot)
    /\ response' = NoResponse
    /\ UNCHANGED <<pc, method, processing_status, device, jobLocals, jobDir>>

(* ------------------------------------------------------------------ specs *)
ExitCodes == {"zero", "nonzero"}

Orchestrate(j) ==
    \/ \E ok \in BOOLEAN : Start(j, ok)
    \/ ProbeReturn(j)
    \/ ExtractReturn(j)
    \/ ListFrames(j)
    \/ \E ok \in BOOLEAN : FrameReturn(j, ok)
    \/ NextFrame(j)
    \/ EncodeReturn(j)
    \/ Finally(j)

Subprocess(j) ==
    \/ \E rc \in ExitCodes, out \in ProbeOutputs : ProbeExit(j, rc, out)
    \/ \E rc \in ExitCodes, n \in 0..MaxFrames : ExtractExit(j, rc, n)
    \/ \E rc \in ExitCodes, partial \in BOOLEAN : EncodeExit(j, rc, partial)

Next ==
    \/ \E j \in Jobs, m \in Methods : Admit(j, m)
    \/ \E j \in Jobs, m \in Methods, created \in BOOLEAN : AdmitFails(j, m, created)
    \/ \E j \in Jobs : Orchestrate(j)
    \/ \E j \in Jobs : Subprocess(j)
    \/ \E j \in Jobs : GetStatus(j)
    \/ JanitorWake

Spec == Init /\ [][Next]_vars

\* the same system without status polls, which read the registry and write
\* nothing but their own response
NextQuiet ==
    \/ \E j \in Jobs, m \in Methods : Admit(j, m)
    \/ \E j \in Jobs, m \in Methods, created \in BOOLEAN : AdmitFails(j, m, created)
    \/ \E j \in Jobs : Orchestrate(j)
    \/ \E j \in Jobs : Subprocess(j)
    \/ JanitorWake

\* the event loop runs every scheduled task, and every child process exits
FairSpec ==
    /\ Init
    /\ [][NextQuiet]_vars
    /\ \A j \in Jobs : WF_vars(Orchestrate(j)) /\ WF_vars(Subprocess(j))

\* the video jobs (status polls left out) together with requests to the
\* single-image endpoint
NextWithImages ==
    \/ NextQuiet
    \/ \E m \in Methods, outcome \in ImageOutcomes : RemoveBackground(m, outcome)

ImageSpec == Init /\ [][NextWithImages]_vars

\* the ages an artifact can have when a pass begins: it was at most MaxAge
\* old at the pass before, one sleep ago
Ages == 0..(MaxAge + 1)

\* what a job can look like while the janitor works and nothing else runs:
\* its extraction child still running, ended completed, or ended after a
\* failed probe with the exception of the finally block
Snapshots == {"extract_run", "done", "crashed"}

\* the janitor observed alone (lines 47-60): the jobs stand still in any
\* combination of Snapshots, their artifacts have any age a pass can meet
JanitorInit ==
    /\ pc \in [Jobs -> Snapshots]
    /\ method = [j \in Jobs |-> IF pc[j] = "extract_run" THEN "u2net" ELSE "none"]
    /\ processing_status =
           [j \in Jobs |->
               CASE pc[j] = "extract_run" -> Processing(Rat(0), "Extracting frames")
                 [] pc[j] = "done" -> CompletedRecord(j)
                 [] OTHER -> ErrorRecord("Error counting frames")]
    /\ device = "cpu"
    /\ frames_dir = [j \in Jobs |-> pc[j] # "crashed"]
    /\ frame_count = [j \in Jobs |-> IF pc[j] = "crashed" THEN 0 - 1 ELSE 1]
    /\ total_frames = [j \in Jobs |-> 0]
    /\ idx = [j \in Jobs |-> 0]
    /\ returncode = [j \in Jobs |-> "none"]
    /\ stdout = [j \in Jobs |-> "none"]
    /\ raised = [j \in Jobs |->
                    IF pc[j] = "crashed"
                      THEN "local variable 'frames_dir' referenced before assignment"
                      ELSE "none"]
    /\ extracted = [j \in Jobs |-> 0 - 1]
    /\ inputFile \in [Jobs -> Ages]
    /\ \E a \in [Jobs -> Ages] :
           outputFile = [j \in Jobs |->
                            IF pc[j] = "done" THEN [age |-> a[j], frames |-> <<"rgba">>]
                            ELSE NoFile]
    /\ framesRoot \in Ages
    /\ jobDir = [j \in Jobs |->
                    IF pc[j] = "extract_run" THEN [exists |-> TRUE, files |-> <<>>]
                    ELSE NoDir]
    /\ response = NoResponse

JanitorNext == Sweep \/ Sleep

JanitorSpec == JanitorInit /\ [][JanitorNext]_vars

\* numbers of frame files the extraction can write whatever the probe
\* counted: the probe counts the packets of the first video stream, the
\* extraction writes the frames ffmpeg outputs at a constant rate, which for a
\* video of variable frame rate are more than its packets
DriftCounts == (0..MaxFrames) \cup {MaxFrameCount + 1}

\* one job alone with the janitor, the extraction free to write any of
\* DriftCounts files
DriftNext ==
    \/ \E m \in Methods : Admit(1, m)
    \/ Orchestrate(1)
    \/ \E rc \in ExitCodes, out \in ProbeOutputs : ProbeExit(1, rc, out)
    \/ \E rc \in ExitCodes, n \in DriftCounts : ExtractExit(1, rc, n)
    \/ \E rc \in ExitCodes, partial \in BOOLEAN : EncodeExit(1, rc, partial)
    \/ GetStatus(1)
    \/ JanitorWake

DriftSpec == Init /\ [][DriftNext]_vars

\* videos of at most MaxFrames frames, as the probe prints their packet count
ShortVideos == {s \in {"0", "1", "2", "3"} : ParseInt(s) <= MaxFrames}

\* one job's steps in a correctly configured run: the accelerator is
\* available, every child exits with status zero, the extractor writes exactly
\* as many frame files as the probe counted, every backend call succeeds
ConfiguredJob(j) ==
    \/ Start(j, TRUE)
    \/ \E out \in ShortVideos : ProbeExit(j, "zero", out)
    \/ ProbeReturn(j)
    \/ ExtractExit(j, "zero", frame_count[j])
    \/ ExtractReturn(j)
    \/ ListFrames(j)
    \/ FrameReturn(j, TRUE)
    \/ NextFrame(j)
    \/ EncodeExit(j, "zero", FALSE)
    \/ EncodeReturn(j)
    \/ Finally(j)

\* supported methods only, and no janitor pass while the jobs run
ConfiguredNext ==
    \/ \E j \in Jobs, m \in SupportedMethods : Admit(j, m)
    \/ \E j \in Jobs : ConfiguredJob(j)
    \/ \E j \in Jobs : GetStatus(j)

ConfiguredSpec ==
    /\ Init
    /\ [][ConfiguredNext]_vars
    /\ \A j \in Jobs : WF_vars(ConfiguredJob(j))

(* ----------------------------------------------------------------- claims *)
Admitted(j) == pc[j] \notin {"idle", "rejected"}
Finished(j) == pc[j] \in {"done", "crashed"}
HasRecord(j) == j \in DOMAIN processing_status
Terminal(j) == HasRecord(j) /\ processing_status[j].status \in {"completed", "error"}

Record(j) == processing_status[j]
HasField(j, f) == f \in DOMAIN processing_status[j]
Transformed(j) == Cardinality({k \in DOMAIN jobDir[j].files : jobDir[j].files[k] = "rgba"})

\* C1: no exception propagates out of process_video, and a run in which an
\* exception was raised ends with the record status=error whose message is
\* that exception's description
C1_FailuresConverted ==
    \A j \in Jobs :
        /\ pc[j] # "crashed"
        /\ (Finished(j) /\ raised[j] # "none") =>
               /\ HasRecord(j)
               /\ Record(j) = ErrorRecord(raised[j])

\* C2: once admission has returned an id, the registry holds a record for it,
\* and no status query for it is answered "Video ID not found"
C2_AdmittedHasRecord ==
    /\ \A j \in Jobs : Admitted(j) => HasRecord(j)
    /\ (response.op = "status" /\ Admitted(response.id)) =>
           response.body # [detail |-> "Video ID not found"]

\* C3: every admitted job eventually has a terminal record (completed or
\* error), whatever the other jobs and the janitor do, and a terminal record
\* never changes its status again
C3_ReachesTerminalAndStays ==
    /\ \A j \in Jobs : Admitted(j) ~> Terminal(j)
    /\ [][\A j \in Jobs : Terminal(j) =>
            /\ j \in DOMAIN processing_status'
            /\ processing_status'[j].status = processing_status[j].status]_vars

C3_Witness ==
    \E j, k \in Jobs :
        /\ j # k
        /\ Terminal(j) /\ Record(j).status = "completed"
        /\ Terminal(k) /\ Record(k).status = "error"
        /\ framesRoot = Absent

\* C4: in every record with status=processing the progress lies in [0,100];
\* from one processing record of a job to the next the progress never
\* decreases; and the record written after the k-th of N frames has been
\* transformed carries progress k/N*100
C4_ProgressMonotone ==
    /\ [](\A j \in Jobs : (HasRecord(j) /\ Record(j).status = "processing") =>
            /\ RatLeq(Rat(0), Record(j).progress)
            /\ RatLeq(Record(j).progress, Rat(100)))
    /\ [][\A j \in Jobs :
            (/\ HasRecord(j) /\ Record(j).status = "processing"
             /\ processing_status'[j].status = "processing") =>
                RatLeq(Record(j).progress, processing_status'[j].progress)]_vars
    /\ [](\A j \in Jobs : pc[j] = "next_frame" =>
            /\ Transformed(j) = idx[j] + 1
            /\ RatEq(Record(j).progress, <<100 * Transformed(j), total_frames[j]>>))

C4_Witness ==
    \E j \in Jobs :
        /\ pc[j] = "frame_wait"
        /\ idx[j] = 1
        /\ total_frames[j] = 2
        /\ RatEq(Record(j).progress, Rat(50))

\* C5: a job whose probe reported more than 250 frames has the record
\* status=error "Video too long (max 250 frames)", never stands at the
\* extraction, transformation or encoding stage, and has neither a frame
\* directory nor an output artifact
C5_TooLongRejected ==
    \A j \in Jobs : frame_count[j] > MaxFrameCount =>
        /\ HasRecord(j)
        /\ Record(j) = ErrorRecord("Video too long (max 250 frames)")
        /\ pc[j] \in {"finally", "done", "crashed"}
        /\ ~frames_dir[j]
        /\ jobDir[j] = NoDir
        /\ outputFile[j] = NoFile

C5_Witness == \E j \in Jobs : frame_count[j] > MaxFrameCount /\ Finished(j)

\* C6: when the coroutine resumes from a failed probe (non-zero exit, or
\* output that int() rejects) it writes status=error "Error counting frames"
\* and creates no frame directory
C6_ProbeFailureMessage ==
    [][\A j \in Jobs :
        (/\ pc[j] = "probe_exited"
         /\ pc'[j] # "probe_exited"
         /\ (returncode[j] # "zero" \/ ~Parsable(stdout[j]))) =>
            /\ processing_status'[j] = ErrorRecord("Error counting frames")
            /\ ~jobDir'[j].exists
            /\ ~frames_dir'[j]]_vars

\* C7: a job whose record is terminal and whose orchestrator has finished has
\* no frame directory and no frame file
C7_FramesDirGone ==
    \A j \in Jobs : (Terminal(j) /\ Finished(j)) => jobDir[j] = NoDir

C7_Witness ==
    \E j \in Jobs :
        /\ pc[j] = "done"
        /\ frames_dir[j]
        /\ Record(j).status = "completed"
        /\ framesRoot # Absent

\* C8 as stated: a completed record carries output_path of the job's artifact
\* and progress=100, and only completed records carry output_path
C8_CompletedRecord ==
    \A j \in Jobs : HasRecord(j) =>
        /\ Record(j).status = "completed" =>
               /\ HasField(j, "output_path") /\ Record(j).output_path = OutputPath(j)
               /\ HasField(j, "progress") /\ RatEq(Record(j).progress, Rat(100))
        /\ HasField(j, "output_path") => Record(j).status = "completed"

\* C8 amended: a zero exit of the encoder makes the record exactly
\* {status: completed, output_path: the artifact named by the job id},
\* replacing the Encoding video record whose progress was 100; a completed
\* record has no progress field; only completed records carry output_path
C8_CompletedRecordAmended ==
    /\ [](\A j \in Jobs : HasRecord(j) =>
            /\ Record(j).status = "completed" =>
                   /\ DOMAIN Record(j) = {"status", "output_path"}
                   /\ Record(j).output_path = OutputPath(j)
            /\ HasField(j, "output_path") => Record(j).status = "completed")
    /\ [][\A j \in Jobs :
            (pc[j] = "encode_exited" /\ pc'[j] # "encode_exited"
                /\ returncode[j] = "zero") =>
                /\ Record(j) = Processing(Rat(100), "Encoding video")
                /\ processing_status'[j].status = "completed"]_vars

C8_Witness ==
    \E j \in Jobs :
        /\ HasRecord(j) /\ Record(j).status = "completed"
        /\ outputFile[j].age = 0
        /\ Len(outputFile[j].frames) = MaxFrames

\* C9: a status query for an id that was never admitted answers not-found; a
\* query for a completed job whose artifact is missing answers not-found; no
\* status query changes the registry
C9_StatusQueryReadOnly ==
    /\ []((response.op = "status" /\ ~Admitted(response.id)) =>
            (response.code = 404 /\ response.body = [detail |-> "Video ID not found"]))
    /\ []((/\ response.op = "status"
           /\ HasRecord(response.id)
           /\ Record(response.id).status = "completed"
           /\ outputFile[response.id].age = Absent) =>
            /\ response.code = 404
            /\ response.body = [detail |-> "Processed video file not found"]
            /\ Record(response.id) = CompletedRecord(response.id))
    /\ [][response'.op = "status" => processing_status' = processing_status]_vars

C9_Witness ==
    /\ response.op = "status"
    /\ HasRecord(response.id)
    /\ Record(response.id).status = "completed"
    /\ outputFile[response.id].age = Absent
    /\ response.code = 404

\* C10: every record whose status is not completed has the three fields
\* status, progress and message
C10_RecordHasAllFields ==
    \A j \in Jobs : (HasRecord(j) /\ Record(j).status # "completed") =>
        {"status", "progress", "message"} \subseteq DOMAIN Record(j)

\* C11 as stated: in a correctly configured run (supported method, every
\* child exits zero, the extractor yields exactly the n frames the probe
\* counted, no janitor pass), for every n from 0 up, the job ends completed
\* with an output assembled from exactly n frames.
C11_ConfiguredCompletes ==
    \A j \in Jobs : Finished(j) =>
        /\ Record(j).status = "completed"
        /\ Len(outputFile[j].frames) = frame_count[j]

\* C11 amended: the same for every n from 1 up: the job is eventually over,
\* and then it ended without an escaping exception, its record is the
\* completed record and its output holds exactly n frames, every one of them
\* transformed; a video of 0 frames ends in error with the message
\* "No frames were extracted from the video" and no output.
C11_ConfiguredCompletesAmended ==
    /\ \A j \in Jobs : Admitted(j) ~> Finished(j)
    /\ [](\A j \in Jobs : (Finished(j) /\ frame_count[j] >= 1) =>
            /\ pc[j] = "done"
            /\ Record(j) = CompletedRecord(j)
            /\ outputFile[j].frames = [k \in 1..frame_count[j] |-> "rgba"])
    /\ [](\A j \in Jobs : (Finished(j) /\ frame_count[j] = 0) =>
            /\ Record(j) = ErrorRecord("No frames were extracted from the video")
            /\ outputFile[j] = NoFile)

C11_Witness ==
    \E j, k \in Jobs :
        /\ pc[j] = "done" /\ frame_count[j] = MaxFrames
        /\ Len(outputFile[j].frames) = MaxFrames
        /\ pc[k] = "done" /\ frame_count[k] = 0

\* everything job j's coroutine, its children and its status query read or
\* write under the job's own id: nothing of it changes in this step
Untouched(j) ==
    /\ pc'[j] = pc[j] /\ method'[j] = method[j]
    /\ HasRecord(j) <=> j \in DOMAIN processing_status'
    /\ HasRecord(j) => processing_status'[j] = Record(j)
    /\ frames_dir'[j] = frames_dir[j] /\ frame_count'[j] = frame_count[j]
    /\ total_frames'[j] = total_frames[j] /\ idx'[j] = idx[j]
    /\ returncode'[j] = returncode[j] /\ stdout'[j] = stdout[j]
    /\ raised'[j] = raised[j] /\ extracted'[j] = extracted[j]
    /\ inputFile'[j] = inputFile[j] /\ outputFile'[j] = outputFile[j]
    /\ jobDir'[j] = jobDir[j]

C13_InvalidMethodFailsFast ==
    \A j \in Jobs : (Admitted(j) /\ method[j] = "bogus") =>
        /\ pc[j] \in {"scheduled", "finally"}
        /\ HasRecord(j) => Record(j).status = "error"
        /\ ~jobDir[j].exists

\* C14: when process_video ends, on whatever path, for a job that acquired the
\* accelerator (inspyrenet), and no other such job is in flight, the
\* accelerator is idle (the model is back on the CPU).
C14_AcceleratorReleased ==
    [][\A j \in Jobs :
        (/\ pc[j] = "finally" /\ pc'[j] \in {"done", "crashed"}
         /\ method[j] = "inspyrenet"
         /\ processing_status[j].status \in {"completed", "error"}
         /\ \A k \in Jobs \ {j} : method[k] # "inspyrenet") =>
            device' = "cpu"]_vars

\* job j has moved the model to the accelerator and is in its pipeline
Holds(j) ==
    /\ method[j] = "inspyrenet"
    /\ pc[j] \in {"probe_run", "probe_exited", "extract_run", "extract_exited",
                  "list_frames", "frame_wait", "next_frame", "encode_run",
                  "encode_exited"}

\* C15: at most one job holds the accelerator at any time, and while a job
\* that acquired it is in its transformation stage nobody (another job or
\* the single-image endpoint) has released it: the model is on the accelerator.
C15_AcceleratorExclusive ==
    /\ Cardinality({j \in Jobs : Holds(j)}) <= 1
    /\ \A j \in Jobs : (Holds(j) /\ pc[j] \in {"frame_wait", "next_frame"}) =>
           device = "cuda"

\* the stage a job stands at: 1 admitted, 2 counting frames, 3 extracting,
\* 4 transforming, 5 encoding, 6 over (completed or error); 0 before admission
Stage(p) ==
    CASE p \in {"idle", "rejected"} -> 0
      [] p = "scheduled" -> 1
      [] p \in {"probe_run", "probe_exited"} -> 2
      [] p \in {"extract_run", "extract_exited"} -> 3
      [] p \in {"list_frames", "frame_wait", "next_frame"} -> 4
      [] p \in {"encode_run", "encode_exited"} -> 5
      [] OTHER -> 6

\* C16: a job passes through admitted, counting frames, extracting,
\* transforming, encoding in that order and then is over: a step keeps the
\* stage, enters the next one, or ends the job; the job ends completed only
\* out of encoding, otherwise in error; extraction is entered only after a
\* zero probe exit with a count within the ceiling, transformation only after
\* a zero extraction exit, encoding only when every listed frame has been
\* transformed; and the frames are transformed in ascending order, the
\* transformed ones always being the first ones of the sorted listing.
C16_StagesInOrder ==
    /\ [][\A j \in Jobs :
            /\ Stage(pc'[j]) \in {Stage(pc[j]), Stage(pc[j]) + 1, 6}
            /\ Stage(pc'[j]) >= Stage(pc[j])
            /\ (Stage(pc[j]) < 6 /\ Stage(pc'[j]) = 6) =>
                   processing_status'[j].status =
                       IF Stage(pc[j]) = 5 /\ returncode[j] = "zero"
                         THEN "completed" ELSE "error"
            /\ (Stage(pc[j]) = 2 /\ Stage(pc'[j]) = 3) =>
                   /\ returncode[j] = "zero"
                   /\ Parsable(stdout[j]) /\ ParseInt(stdout[j]) <= MaxFrameCount
            /\ (Stage(pc[j]) = 3 /\ Stage(pc'[j]) = 4) => returncode[j] = "zero"
            /\ (Stage(pc[j]) = 4 /\ Stage(pc'[j]) = 5) =>
                   /\ total_frames[j] >= 1
                   /\ jobDir[j].files = [k \in 1..total_frames[j] |-> "rgba"]]_vars
    /\ [](\A j \in Jobs : Stage(pc[j]) \in 2..5 => Record(j).status = "processing")
    /\ [](\A j \in Jobs : (pc[j] \in {"frame_wait", "next_frame"} /\ jobDir[j].exists) =>
            \A k \in 1..total_frames[j] :
                jobDir[j].files[k] = "rgba" <=>
                    k <= (IF pc[j] = "next_frame" THEN idx[j] + 1 ELSE idx[j]))

C16_Witness ==
    \E j \in Jobs :
        /\ pc[j] = "encode_run"
        /\ idx[j] = MaxFrames - 1
        /\ Transformed(j) = MaxFrames

\* C17: the terminal cleanup treats an already absent frame directory as
\* success: a job that had created its frame directory ends its cleanup
\* without an escaping exception, also when the janitor removed the
\* directory first, and its terminal status is what it was before the cleanup.
C17_AbsentIsSuccess ==
    /\ \A j \in Jobs : (Finished(j) /\ frames_dir[j]) => pc[j] = "done"
    /\ \A j \in Jobs : (pc[j] \in {"finally", "done", "crashed"}) => Terminal(j)

\* C18: a pass of the janitor removes every top-level artifact (input file,
\* output file, the frames directory with everything below it) that is older
\* than the threshold, leaves every artifact that is not older exactly as it
\* was, and leaves the registry as it was; after a pass nothing older than
\* the threshold is left, so a second pass right after it changes nothing.
C18_SweepDeletesOldOnly ==
    /\ [][Sweep =>
            /\ \A j \in Jobs :
                   /\ inputFile'[j] = IF inputFile[j] > MaxAge THEN Absent ELSE inputFile[j]
                   /\ outputFile'[j] = IF outputFile[j].age > MaxAge THEN NoFile
                                       ELSE outputFile[j]
                   /\ jobDir'[j] = IF framesRoot > MaxAge THEN NoDir ELSE jobDir[j]
            /\ framesRoot' = IF framesRoot > MaxAge THEN Absent ELSE framesRoot
            /\ processing_status' = processing_status
            /\ \A j \in Jobs : inputFile'[j] <= MaxAge /\ outputFile'[j].age <= MaxAge
            /\ framesRoot' <= MaxAge]_vars
    /\ [](ENABLED <<Sweep>>_vars =>
            \/ \E j \in Jobs : inputFile[j] > MaxAge \/ outputFile[j].age > MaxAge
            \/ framesRoot > MaxAge)

C18_Witness ==
    \E j, k \in Jobs :
        /\ pc[j] = "extract_run" /\ inputFile[j] = Absent
        /\ jobDir[j] = NoDir /\ framesRoot = Absent
        /\ pc[k] = "done" /\ inputFile[k] = MaxAge /\ outputFile[k].age = 0

\* the coroutine of job j resumes at position p from a child that exited
\* non-zero: it writes the error record with message msg and goes to finally
HardFailure(j, p, msg) ==
    (pc[j] = p /\ pc'[j] # p /\ returncode[j] = "nonzero") =>
        /\ processing_status'[j] = ErrorRecord(msg)
        /\ pc'[j] = "finally"

\* C19 as stated: a non-zero exit of the probe, the extraction or the
\* encoding makes the job's record status=error with that stage's message,
\* the job goes to its end without retrying the stage or entering a later
\* one, and a job that is over stays over; an extraction that exited zero
\* and wrote no frame file ends the job in error with the message
\* "No frames were extracted from the video".
C19_HardFailures ==
    [][\A j \in Jobs :
        /\ HardFailure(j, "probe_exited", "Error counting frames")
        /\ HardFailure(j, "extract_exited", "Error extracting frames")
        /\ HardFailure(j, "encode_exited", "Error creating output video")
        /\ Stage(pc[j]) = 6 => Stage(pc'[j]) = 6
        /\ (pc[j] = "list_frames" /\ pc'[j] # "list_frames" /\ extracted[j] = 0) =>
               /\ processing_status'[j] =
                      ErrorRecord("No frames were extracted from the video")
               /\ pc'[j] = "finally"]_vars

\* C19 amended: the same, except that the zero-frames message is written
\* only when the job's frame directory still exists at the listing; when the
\* janitor has removed it in between, the listing raises and the job ends in
\* error with that exception's description.
C19_HardFailuresAmended ==
    [][\A j \in Jobs :
        /\ HardFailure(j, "probe_exited", "Error counting frames")
        /\ HardFailure(j, "extract_exited", "Error extracting frames")
        /\ HardFailure(j, "encode_exited", "Error creating output video")
        /\ Stage(pc[j]) = 6 => Stage(pc'[j]) = 6
        /\ (pc[j] = "list_frames" /\ pc'[j] # "list_frames" /\ extracted[j] = 0) =>
               /\ processing_status'[j] =
                      IF jobDir[j].exists
                        THEN ErrorRecord("No frames were extracted from the video")
                        ELSE ErrorRecord("No such file or directory")
               /\ pc'[j] = "finally"]_vars

C19_Witness ==
    \E j, k \in Jobs :
        /\ pc[j] = "finally" /\ jobDir[j].exists
        /\ Record(j) = ErrorRecord("No frames were extracted from the video")
        /\ pc[k] = "done"
        /\ Record(k) = ErrorRecord("Error creating output video")

\* C20: no job transforms more than 250 frames: the number of frame files a
\* job lists and iterates over, and the number it has transformed, never
\* exceed the ceiling, whatever number of files the extraction wrote.
C20_AtMostCeilingFrames ==
    \A j \in Jobs :
        /\ total_frames[j] <= MaxFrameCount
        /\ Transformed(j) <= MaxFrameCount
====
